---------------------------- MODULE Spec2Model ----------------------------
(***************************************************************************)
(* Model of the DHT11/DHT22 driver (src/dhtxx.c, src/include/dhtxx/dhtxx.h)*)
(*                                                                         *)
(* dht_read is modelled statement group by statement group with a program  *)
(* counter.  The two polling loops are single steps whose input is what    *)
(* the line does while the loop runs: the number of consecutive polls at   *)
(* which the line keeps the level the loop is waiting on.  The level       *)
(* re-read after the inner loop (line 106) is a second free input.         *)
(*                                                                         *)
(* Floats are represented exactly in tenths of a unit together with the    *)
(* IEEE sign ([neg, tenths]); rounding of the binary representation is not *)
(* modelled.                                                               *)
(*                                                                         *)
(* data[] is represented on indices 0..4 only.  Elements 5..99 are never   *)
(* initialised and never read except by their own shift/or update, so      *)
(* their indeterminate contents are left out.  A store with j/8 >= 100     *)
(* lands outside the array: it is recorded in `smashed`, and a call that   *)
(* smashed its stack may fail to return (pc = "crashed").                  *)
(***************************************************************************)
EXTENDS Integers, Sequences, FiniteSets, TLC

VARIABLES
    sensor,     \* DHT_Sensor: [pin, type]
    output,     \* the caller's DHT_Sensor_Output: [temperature, humidity]
    gpio,       \* the pin as the GPIO collaborator sees it: [pin, dir, out]
    pc,         \* position in the program
    i, j, counter, laststate, checksum, data,   \* locals of dht_read
    result,     \* value returned by the last API call ("none" while running)
    diag,       \* the diagnostic dht_read printed last
    lowSeen,    \* some poll of the wait loop read the line low
    smashed,    \* a store went outside data[0..99]
    ops,        \* what this call did with the pin so far, polls in a row as one
    bits,       \* the first 40 bits stored by this call, in order
    value,      \* dht_float2String: the float passed
    buffer      \* dht_float2String: the text written

vars == <<sensor, output, gpio, pc, i, j, counter, laststate, checksum, data,
          result, diag, lowSeen, smashed, ops, bits, value, buffer>>

\* the variables of dht_float2String
fmt == <<value, buffer>>

locals == <<i, j, counter, laststate, checksum, data>>

----------------------------------------------------------------------------
(* Program constants *)

DHT_MAXTIMINGS == 10000
DHT_BREAKTIME == 20
DHT_MAXCOUNT == 32000
\* cap of the inner polling loop (the literal 1000 in lines 103 and 107)
DHT_MAXPOLLS == 1000
\* int data[100]
DHT_DATALEN == 100
\* the bit count the result is accepted from (the literal 39 in line 119)
DHT_MINBITS == 39
\* bits of a frame: 5 bytes
FrameBits == 40

DHT11 == "DHT11"
DHT22 == "DHT22"
DHTType == {DHT11, DHT22}

Levels == {0, 1}

(* Bounds of the environment *)

\* pulses a sensor frame may be followed by before the line goes idle
MaxExtra == 2

\* largest magnitude, in hundredths, passed to dht_float2String
MaxHundredths == 10000

Pins == {2, 4}

Min(a, b) == IF a < b THEN a ELSE b

Pow2(n) == 2 ^ n

----------------------------------------------------------------------------
(* Scaling (lines 35-56).  Values in tenths. *)

Float(neg, tenths) == [neg |-> neg, tenths |-> tenths]

\* mutant: the DHT22 encoding applied whatever the variant
scale_humidity_Tenths(sensor_type, d) == Float(FALSE, d[0] * 256 + d[1])

scale_humidity(sensor_type, d) ==
    IF sensor_type = DHT11
    THEN Float(FALSE, d[0] * 10)
    ELSE Float(FALSE, d[0] * 256 + d[1])

\* mutant: the sign bit kept in the magnitude
scale_temperature_NoMask(sensor_type, d) ==
    IF sensor_type = DHT11
    THEN Float(FALSE, d[2] * 10)
    ELSE Float((d[2] \div 128) % 2 = 1, d[2] * 256 + d[3])

scale_temperature(sensor_type, d) ==
    IF sensor_type = DHT11
    THEN Float(FALSE, d[2] * 10)
    ELSE Float((d[2] \div 128) % 2 = 1, (d[2] % 128) * 256 + d[3])

----------------------------------------------------------------------------
(* dht_float2String (lines 148-151).  A float is the binary32 number nearest
   to the decimal it stands for; it is held as mant / 2^shift with a mantissa
   of 24 bits, and the arithmetic of line 149 is done on that. *)

\* the float nearest to h / 100, with its sign
Hundredths(neg, h) == [neg |-> neg, hundredths |-> h]

\* a / b rounded to the nearest integer, ties to even
RoundDiv(a, b) ==
    LET q == a \div b
        r == a % b
    IN  IF 2 * r > b \/ (2 * r = b /\ q % 2 = 1) THEN q + 1 ELSE q

\* the shift s with 2^23 <= (h / 100) * 2^s < 2^24, for h > 0
ShiftOf(h) ==
    CHOOSE s \in 0..30 : /\ Pow2(s) <= (Pow2(24) * 100 - 1) \div h
                         /\ Pow2(23) * 100 <= h * Pow2(s)

\* binary32 of h / 100 (h >= 0): [mant, shift]
ToFloat(h) ==
    IF h = 0 THEN [mant |-> 0, shift |-> 0]
    ELSE [mant |-> RoundDiv(h * Pow2(ShiftOf(h)), 100), shift |-> ShiftOf(h)]

\* the number of bits of p above 24
ExcessBits(p) ==
    CHOOSE k \in 0..7 : /\ p \div Pow2(k) < Pow2(24)
                        /\ (k = 0 \/ p \div Pow2(k) >= Pow2(23))

\* p rounded to 24 significant bits
Round24(p) == RoundDiv(p, Pow2(ExcessBits(p))) * Pow2(ExcessBits(p))

\* (int)value, as a magnitude
IntPart(f) == f.mant \div Pow2(f.shift)

\* (int)((value - (int)value) * 100), as a magnitude: the subtraction is
\* exact, the product is rounded to a float, the conversion truncates
FracPart(f) == Round24((f.mant % Pow2(f.shift)) * 100) \div Pow2(f.shift)

DigitChars == <<"0", "1", "2", "3", "4", "5", "6", "7", "8", "9">>

RECURSIVE Decimal(_)
\* the decimal digits of n >= 0
Decimal(n) ==
    IF n < 10 THEN <<DigitChars[n + 1]>>
    ELSE Decimal(n \div 10) \o <<DigitChars[(n % 10) + 1]>>

\* "%d" of the integer with this sign and magnitude (there is no integer -0)
FormatD(neg, n) == IF neg /\ n > 0 THEN <<"-">> \o Decimal(n) ELSE Decimal(n)

\* line 149: os_sprintf(buffer, "%d.%d", (int)value, (int)((value - (int)value) * 100))
Float2String(v) ==
    LET f == ToFloat(v.hundredths)
    IN  FormatD(v.neg, IntPart(f)) \o <<".">> \o FormatD(v.neg, FracPart(f))

----------------------------------------------------------------------------
(* Pieces of dht_read *)

\* line 71: data[0] = ... = data[4] = 0
ZeroData == [k \in 0..4 |-> 0]

\* mutant: the wait loop not bounded by i < DHT_MAXCOUNT
WaitCount_NoBound(n) == n

\* lines 86-89: the value of i when the wait loop ends, the line having read
\* high at the first n polls
WaitCount(n) == Min(n, DHT_MAXCOUNT)

\* lines 86-89: the wait loop polls before it tests i, so the poll made with
\* i = DHT_MAXCOUNT is still made: the line is seen low iff one of the first
\* DHT_MAXCOUNT + 1 polls reads low
WaitSawLow(n) == n <= DHT_MAXCOUNT

\* mutant: the bound tested one too far
TimedOut_Past(iv) == iv > DHT_MAXCOUNT

\* line 91
TimedOut(iv) == iv = DHT_MAXCOUNT

\* mutant: the inner loop without its cap
CountPolls_NoCap(run) == run

\* lines 99-105: counter after the inner loop, the line having kept laststate
\* at the first run polls
CountPolls(run) == Min(run, DHT_MAXPOLLS)

\* mutant: the stall missed
Stalled_Past(c) == c > DHT_MAXPOLLS

\* lines 103-108
Stalled(c) == c = DHT_MAXPOLLS

\* mutant: the odd transitions taken
StoresBit_Odd(iv) == (iv > 3) /\ (iv % 2 = 1)

\* line 110
StoresBit(iv) == (iv > 3) /\ (iv % 2 = 0)

\* mutant: the threshold compared with >=
BitOf_Ge(c) == IF c >= DHT_BREAKTIME THEN 1 ELSE 0

\* line 113
BitOf(c) == IF c > DHT_BREAKTIME THEN 1 ELSE 0

\* mutant: the bit put at the low end first
ShoveBit_LsbFirst(d, jv, bit) ==
    IF jv \div 8 \in DOMAIN d
    THEN [d EXCEPT ![jv \div 8] = d[jv \div 8] + bit * Pow2(jv % 8)]
    ELSE d

\* lines 112-114: data[j / 8] <<= 1; data[j / 8] |= bit
ShoveBit(d, jv, bit) ==
    IF jv \div 8 \in DOMAIN d
    THEN [d EXCEPT ![jv \div 8] = d[jv \div 8] * 2 + bit]
    ELSE d

\* lines 112-114: the store is outside int data[100]
OutOfBounds(jv) == jv \div 8 >= DHT_DATALEN

\* mutant: a whole frame asked for
EnoughBits_40(jv) == jv >= FrameBits

\* line 119
EnoughBits(jv) == jv >= DHT_MINBITS

\* mutant: the sum not reduced to a byte
Checksum_NoMask(d) == d[0] + d[1] + d[2] + d[3]

\* line 120
Checksum(d) == (d[0] + d[1] + d[2] + d[3]) % 256

\* line 124
ChecksumValid(d, cs) == d[4] = cs

\* mutant: the fields assigned before the checksum is looked at
StoreReading_Always(valid, out, sensor_type, d) ==
    [temperature |-> scale_temperature(sensor_type, d),
     humidity |-> scale_humidity(sensor_type, d)]

\* lines 126-127: both fields are assigned, and only when the checksum is valid
StoreReading(valid, out, sensor_type, d) ==
    IF valid
    THEN [temperature |-> scale_temperature(sensor_type, d),
          humidity |-> scale_humidity(sensor_type, d)]
    ELSE out

NoDiag == [kind |-> "none", bits |-> 0, expected |-> 0, computed |-> 0]

\* GPIO_OUTPUT_SET(pin, level) followed by a delay of us microseconds
Drive(level, us) == [op |-> "drive", level |-> level, us |-> us]

\* GPIO_DIS_OUTPUT(pin)
Release == [op |-> "release", level |-> 0, us |-> 0]

\* GPIO_INPUT_GET(pin), once or several times in a row
Poll == [op |-> "poll", level |-> 0, us |-> 0]

Polled(o) == IF o # << >> /\ o[Len(o)] = Poll THEN o ELSE Append(o, Poll)

\* lines 74-83 and the polls after them
Handshake == <<Drive(1, 250000), Drive(0, 20000), Drive(1, 40), Release, Poll>>

----------------------------------------------------------------------------
(* The line: what the sensor and the wiring may do *)

Frame(a, b, c, d, e) == [k \in 0..4 |-> <<a, b, c, d, e>>[k + 1]]

\* frames a sensor transmits: a valid frame (DHT22: 40.0 %, -1.0 C), a frame
\* with a wrong checksum, the all-short and all-long pulse trains, and a
\* frame that differs from the all-short one in its last bit only
Frames ==
    { Frame(1, 144, 128, 10, 27), Frame(2, 26, 1, 5, 35), Frame(0, 0, 0, 0, 0),
      Frame(255, 255, 255, 255, 255), Frame(0, 0, 0, 0, 1) }

\* bit number n (from 0) of a frame: a sensor sends each byte high bit first
FrameBit(f, n) == (f[n \div 8] \div Pow2(7 - (n % 8))) % 2

\* the bits bs are the first bits of frame f
IsPrefix(bs, f) == \A n \in 1..Len(bs) : bs[n] = FrameBit(f, n - 1)

\* the line keeps toggling with short pulses for ever (noise, an oscillator)
Uniform(bs) == \A n \in 1..Len(bs) : bs[n] = 0

\* the pulse that is stored as bit number jv may come: the bits of a frame,
\* then a few more pulses, or short pulses without end
LineAllows(bs, jv, bit) ==
    IF jv < FrameBits
    THEN \E f \in Frames : IsPrefix(Append(bs, bit), f)
    ELSE jv < FrameBits + MaxExtra \/ (Uniform(bs) /\ bit = 0)

\* high polls before the first low one in the wait loop
WaitHighs == {0, 1, DHT_MAXCOUNT - 1, DHT_MAXCOUNT, DHT_MAXCOUNT + 1}

\* polls for which the line keeps its level in transition measurement iv: a
\* short pulse, a long pulse, a stall; the line is already low when the
\* first measurement starts
Runs(iv) ==
    {DHT_BREAKTIME, DHT_BREAKTIME + 1, DHT_MAXPOLLS, DHT_MAXPOLLS + 1}
        \cup (IF iv = 0 THEN {0} ELSE {})

\* the level read at line 106: after a change of level the line may have
\* changed again; a line that stalled still has the level it stalled at
LevelsAfter(c, last) == IF c = DHT_MAXPOLLS THEN {last} ELSE Levels

\* what the caller's output object holds before the first read
InitOutput == [temperature |-> Float(TRUE, 1), humidity |-> Float(FALSE, 1)]

----------------------------------------------------------------------------
(* State machine *)

Init ==
    /\ sensor = [pin |-> 0, type |-> DHT11]
    /\ output = InitOutput
    /\ gpio = [pin |-> 0, dir |-> "unconfigured", out |-> 0]
    /\ pc = "uninit"
    /\ i = 0 /\ j = 0 /\ counter = 0 /\ laststate = 1 /\ checksum = 0
    /\ data = ZeroData
    /\ result = "none"
    /\ diag = NoDiag
    /\ lowSeen = FALSE
    /\ smashed = FALSE
    /\ ops = << >>
    /\ bits = << >>
    /\ value = Hundredths(FALSE, 0)
    /\ buffer = << >>

Bool(b) == IF b THEN "true" ELSE "false"

\* line 160: easygpio_pinMode(pin, EASYGPIO_NOPULL, EASYGPIO_OUTPUT), which
\* succeeds (rv) or fails; gpio.pin is the pin the last GPIO call named
PinMode(g, pin, rv) ==
    IF rv THEN [pin |-> pin, dir |-> "out", out |-> 0] ELSE [g EXCEPT !.pin = pin]

\* mutant: the sensor filled in only when the pin could be configured
dht_init_SetOnSuccess ==
    /\ pc = "uninit"
    /\ \E dht_type \in DHTType, pin \in Pins, rv \in BOOLEAN :
        /\ sensor' = IF rv THEN [pin |-> pin, type |-> dht_type] ELSE sensor
        /\ gpio' = PinMode(gpio, pin, rv)
        /\ result' = Bool(rv)
    /\ pc' = "idle"
    /\ UNCHANGED <<output, locals, diag, lowSeen, smashed, ops, bits, fmt>>

\* lines 156-167
dht_init ==
    /\ pc = "uninit"
    /\ \E dht_type \in DHTType, pin \in Pins, rv \in BOOLEAN :
        /\ sensor' = [pin |-> pin, type |-> dht_type]
        /\ gpio' = PinMode(gpio, pin, rv)
        /\ result' = Bool(rv)
    /\ pc' = "idle"
    /\ UNCHANGED <<output, locals, diag, lowSeen, smashed, ops, bits, fmt>>

\* mutant: the buffer and the bit count kept from the call before (static)
ReadEnter_Static ==
    /\ pc = "idle"
    /\ i' = 0 /\ counter' = 0 /\ laststate' = 1 /\ checksum' = 0
    /\ result' = "none"
    /\ diag' = NoDiag
    /\ lowSeen' = FALSE
    /\ smashed' = FALSE
    /\ pc' = "wake"
    /\ ops' = << >>
    /\ UNCHANGED <<sensor, output, gpio, j, data, bits, fmt>>

\* lines 62-71: entry, the locals are initialised
ReadEnter ==
    /\ pc = "idle"
    /\ i' = 0 /\ j' = 0 /\ counter' = 0 /\ laststate' = 1 /\ checksum' = 0
    /\ data' = ZeroData
    /\ result' = "none"
    /\ diag' = NoDiag
    /\ lowSeen' = FALSE
    /\ smashed' = FALSE
    /\ pc' = "wake"
    /\ ops' = << >>
    /\ bits' = << >>
    /\ UNCHANGED <<sensor, output, gpio, fmt>>

\* lines 74-75: GPIO_OUTPUT_SET(pin, 1); sleepms(250)
WakeUp ==
    /\ pc = "wake"
    /\ gpio' = [pin |-> sensor.pin, dir |-> "out", out |-> 1]
    /\ ops' = Append(ops, Drive(1, 250000))
    /\ pc' = "request"
    /\ UNCHANGED <<sensor, output, locals, result, diag, lowSeen, smashed, bits, fmt>>

\* mutant: the 20 ms low pulse left out
HoldLow_Skipped ==
    /\ pc = "request"
    /\ pc' = "prime"
    /\ UNCHANGED <<sensor, output, gpio, locals, result, diag, lowSeen, smashed,
                   ops, bits, fmt>>

\* lines 77-78: GPIO_OUTPUT_SET(pin, 0); sleepms(20)
HoldLow ==
    /\ pc = "request"
    /\ gpio' = [pin |-> sensor.pin, dir |-> "out", out |-> 0]
    /\ ops' = Append(ops, Drive(0, 20000))
    /\ pc' = "prime"
    /\ UNCHANGED <<sensor, output, locals, result, diag, lowSeen, smashed, bits, fmt>>

\* lines 80-81: GPIO_OUTPUT_SET(pin, 1); os_delay_us(40)
HoldHigh ==
    /\ pc = "prime"
    /\ gpio' = [pin |-> sensor.pin, dir |-> "out", out |-> 1]
    /\ ops' = Append(ops, Drive(1, 40))
    /\ pc' = "release"
    /\ UNCHANGED <<sensor, output, locals, result, diag, lowSeen, smashed, bits, fmt>>

\* line 83: GPIO_DIS_OUTPUT(pin)
DisableOutput ==
    /\ pc = "release"
    /\ gpio' = [gpio EXCEPT !.pin = sensor.pin, !.dir = "in"]
    /\ ops' = Append(ops, Release)
    /\ pc' = "wait"
    /\ UNCHANGED <<sensor, output, locals, result, diag, lowSeen, smashed, bits, fmt>>

\* lines 86-89: the wait loop
WaitForDrop ==
    /\ pc = "wait"
    /\ \E n \in WaitHighs :
        /\ i' = WaitCount(n)
        /\ lowSeen' = WaitSawLow(n)
    /\ ops' = Polled(ops)
    /\ pc' = "waited"
    /\ UNCHANGED <<sensor, output, gpio, j, counter, laststate, checksum, data,
                   result, diag, smashed, bits, fmt>>

\* lines 91-94, and line 97: i = 0
TimeoutCheck ==
    /\ pc = "waited"
    /\ IF TimedOut(i)
       THEN /\ result' = "false"
            /\ diag' = [NoDiag EXCEPT !.kind = "Timeout"]
            /\ pc' = "done"
            /\ i' = i
       ELSE /\ i' = 0
            /\ pc' = "capture"
            /\ UNCHANGED <<result, diag>>
    /\ UNCHANGED <<sensor, output, gpio, j, counter, laststate, checksum, data,
                   lowSeen, smashed, ops, bits, fmt>>

\* lines 97-117: one iteration of the capture loop
ReadTransition ==
    /\ pc = "capture"
    /\ i < DHT_MAXTIMINGS
    /\ \E run \in Runs(i) :
      \E lvl \in LevelsAfter(CountPolls(run), laststate) :
        LET c == CountPolls(run) IN
        /\ counter' = c
        /\ laststate' = lvl
        /\ IF Stalled(c)
           THEN /\ pc' = "eval"
                /\ UNCHANGED <<i, j, data, smashed, bits>>
           ELSE /\ pc' = "capture"
                /\ i' = i + 1
                /\ IF StoresBit(i)
                   THEN /\ LineAllows(bits, j, BitOf(c))
                        /\ data' = ShoveBit(data, j, BitOf(c))
                        /\ smashed' = (smashed \/ OutOfBounds(j))
                        /\ bits' = IF j < FrameBits THEN Append(bits, BitOf(c)) ELSE bits
                        /\ j' = j + 1
                   ELSE UNCHANGED <<j, data, smashed, bits>>
    /\ ops' = Polled(ops)
    /\ UNCHANGED <<sensor, output, gpio, checksum, result, diag, lowSeen, fmt>>

\* line 97: i < DHT_MAXTIMINGS fails
LoopEnd ==
    /\ pc = "capture"
    /\ ~(i < DHT_MAXTIMINGS)
    /\ pc' = "eval"
    /\ UNCHANGED <<sensor, output, gpio, locals, result, diag, lowSeen, smashed,
                   ops, bits, fmt>>

\* a call that wrote outside data[] may return or may not
ReturnTo == IF smashed THEN {"done", "crashed"} ELSE {"done"}

\* lines 119-139
Decode ==
    /\ pc = "eval"
    /\ IF EnoughBits(j)
       THEN /\ checksum' = Checksum(data)
            /\ output' = StoreReading(ChecksumValid(data, checksum'), output,
                                      sensor.type, data)
            /\ IF ChecksumValid(data, checksum')
               THEN /\ diag' = [NoDiag EXCEPT !.kind = "Reading"]
                    /\ result' = "true"
               ELSE /\ diag' = [kind |-> "ChecksumMismatch", bits |-> j,
                                expected |-> data[4], computed |-> checksum']
                    /\ result' = "false"
       ELSE /\ diag' = [NoDiag EXCEPT !.kind = "InsufficientBits", !.bits = j]
            /\ result' = "false"
            /\ UNCHANGED <<checksum, output>>
    /\ pc' \in ReturnTo
    /\ UNCHANGED <<sensor, gpio, i, j, counter, laststate, data, lowSeen, smashed,
                   ops, bits, fmt>>

\* the caller goes on and may read again
Return ==
    /\ pc = "done"
    /\ pc' = "idle"
    /\ UNCHANGED <<sensor, output, gpio, locals, result, diag, lowSeen, smashed,
                   ops, bits, fmt>>

Next ==
    \/ dht_init
    \/ ReadEnter
    \/ WakeUp
    \/ HoldLow
    \/ HoldHigh
    \/ DisableOutput
    \/ WaitForDrop
    \/ TimeoutCheck
    \/ ReadTransition
    \/ LoopEnd
    \/ Decode
    \/ Return

Spec == Init /\ [][Next]_vars

----------------------------------------------------------------------------
(* The interpreter on its own: Decode applied to captured frames *)

\* bytes around the sign bit and the byte limits, and the bytes of the
\* frames 02 1A 01 05 and 01 90 80 0A
HighBytes == {0, 1, 2, 127, 128, 129, 255}
LowBytes == {0, 5, 10, 26, 144, 255}
Bytes == 0..255

\* d is a frame the interpreter is tried on: sample bytes with a right and
\* with a wrong checksum byte, and every frame [h, 0, t, 0, (h + t) mod 256]
InterpFrame(d) ==
    \/ \E a \in HighBytes, b \in LowBytes, c \in HighBytes, e \in LowBytes, w \in {0, 1} :
          d = Frame(a, b, c, e, (a + b + c + e + w) % 256)
    \/ \E h \in Bytes, t \in Bytes : d = Frame(h, 0, t, 0, (h + t) % 256)

\* the capture loop has just ended on a stall after 40 bits
InitInterp ==
    /\ sensor \in [pin : {2}, type : DHTType]
    /\ output = InitOutput
    /\ gpio = [pin |-> 2, dir |-> "in", out |-> 1]
    /\ pc = "eval"
    /\ i = 84 /\ j = FrameBits /\ counter = DHT_MAXPOLLS /\ laststate = 1
    /\ checksum = 0
    /\ InterpFrame(data)
    /\ result = "none"
    /\ diag = NoDiag
    /\ lowSeen = TRUE
    /\ smashed = FALSE
    /\ ops = Handshake
    /\ bits = [n \in 1..FrameBits |-> FrameBit(data, n - 1)]
    /\ value = Hundredths(FALSE, 0)
    /\ buffer = << >>

NextInterp == Decode

SpecInterp == InitInterp /\ [][NextInterp]_vars

----------------------------------------------------------------------------
(* dht_float2String on its own *)

\* the caller passes a value of at most two decimals; nothing else has run
InitFormat ==
    /\ sensor = [pin |-> 0, type |-> DHT11]
    /\ output = InitOutput
    /\ gpio = [pin |-> 0, dir |-> "unconfigured", out |-> 0]
    /\ pc = "uninit"
    /\ i = 0 /\ j = 0 /\ counter = 0 /\ laststate = 1 /\ checksum = 0
    /\ data = ZeroData
    /\ result = "none"
    /\ diag = NoDiag
    /\ lowSeen = FALSE
    /\ smashed = FALSE
    /\ ops = << >>
    /\ bits = << >>
    /\ \E neg \in BOOLEAN, h \in 0..MaxHundredths :
          /\ neg => h > 0
          /\ value = Hundredths(neg, h)
    /\ buffer = << >>

\* lines 148-151
dht_float2String ==
    /\ buffer = << >>
    /\ buffer' = Float2String(value)
    /\ UNCHANGED <<sensor, output, gpio, pc, locals, result, diag, lowSeen, smashed,
                   ops, bits, value>>

NextFormat == dht_float2String

SpecFormat == InitFormat /\ [][NextFormat]_vars

----------------------------------------------------------------------------
(* Properties *)

Returned == pc = "done"
Sum4 == (data[0] + data[1] + data[2] + data[3]) % 256

\* C1: a call that reaches the checksum step (j >= 39) returns true iff
\* data[4] = (data[0] + data[1] + data[2] + data[3]) mod 256; when they
\* differ it returns false and reports ChecksumMismatch with expected =
\* data[4] and computed = that sum mod 256.
C1_ChecksumDecides ==
    (Returned /\ j >= 39) =>
        /\ (result = "true") <=> (data[4] = Sum4)
        /\ (data[4] # Sum4) =>
              /\ result = "false"
              /\ diag.kind = "ChecksumMismatch"
              /\ diag.expected = data[4]
              /\ diag.computed = Sum4

\* a frame whose byte sum exceeds 255 was accepted
C1_Witness ==
    Returned /\ j >= 39 /\ result = "true"
        /\ data[0] + data[1] + data[2] + data[3] > 255

\* C2: the caller's output changes only in the step in which dht_read
\* succeeds, and in that step both fields are assigned from the frame; on
\* every failing path (Timeout, InsufficientBits, ChecksumMismatch) it is
\* left as it was.
C2_OutputOnlyOnSuccess ==
    [][ /\ (output' # output) => (pc = "eval" /\ result' = "true")
        /\ (result' = "false") => (output' = output)
        /\ (pc = "eval" /\ result' = "true") =>
              /\ output'.temperature = scale_temperature(sensor.type, data)
              /\ output'.humidity = scale_humidity(sensor.type, data) ]_vars

\* a read failed on its checksum and the reading of an earlier read is kept
C2_Witness ==
    Returned /\ result = "false" /\ diag.kind = "ChecksumMismatch"
        /\ output # InitOutput

\* C3: when every poll of the wait phase reads high, the call returns false
\* with Timeout, no step of the capture loop has run (its locals are as
\* initialised) and no Reading is produced.
C3_TimeoutWhenNeverLow ==
    (~lowSeen /\ pc \in {"capture", "eval", "done", "crashed"}) =>
        /\ Returned
        /\ result = "false"
        /\ diag.kind = "Timeout"
        /\ i = 32000
        /\ j = 0 /\ counter = 0 /\ laststate = 1
        /\ \A k \in 0..4 : data[k] = 0

\* the line stayed high and the call returned
C3_Witness == Returned /\ ~lowSeen /\ diag.kind = "Timeout"

C5_ReadingNeedsFullFrame == (Returned /\ result = "true") => j >= 40

\* C6: every call ends: the wait loop leaves i at 32000 at most, a
\* transition measurement counts 1000 polls at most, the capture loop runs
\* 10000 transitions at most, every state inside a call has a next step and
\* every step of a call brings it closer to its end.
InCall ==
    pc \in {"wake", "request", "prime", "release", "wait", "waited", "capture", "eval"}

Rank ==
    CASE pc = "wake" -> 8 [] pc = "request" -> 7 [] pc = "prime" -> 6
      [] pc = "release" -> 5 [] pc = "wait" -> 4 [] pc = "waited" -> 3
      [] pc = "capture" -> 2 [] pc = "eval" -> 1 [] OTHER -> 0

Distance == Rank * 10001 + (IF pc = "capture" THEN 10000 - i ELSE 0)

C6_Bounded ==
    /\ pc = "waited" => i <= 32000
    /\ counter <= 1000
    /\ pc \in {"capture", "eval"} => i <= 10000
    /\ Distance >= 0
    /\ InCall => ENABLED Next

C7_Dht11PassThrough ==
    (Returned /\ sensor.type = DHT11 /\ data[4] = Sum4) =>
        /\ result = "true"
        /\ output.humidity = [neg |-> FALSE, tenths |-> 10 * data[0]]
        /\ output.temperature = [neg |-> FALSE, tenths |-> 10 * data[2]]

\* h = t = 255
C7_Witness ==
    Returned /\ sensor.type = DHT11 /\ result = "true"
        /\ data = Frame(255, 0, 255, 0, 254)

\* C8: variant B, checksum-valid frame: humidity in tenths is
\* data[0] * 256 + data[1]; temperature in tenths has magnitude
\* (data[2] & 0x7F) * 256 + data[3] and carries a minus sign exactly when
\* bit 0x80 of data[2] is set.
C8_Dht22SignMagnitude ==
    (Returned /\ sensor.type = DHT22 /\ data[4] = Sum4) =>
        /\ result = "true"
        /\ output.humidity = [neg |-> FALSE, tenths |-> data[0] * 256 + data[1]]
        /\ output.temperature.tenths =
              (IF data[2] >= 128 THEN data[2] - 128 ELSE data[2]) * 256 + data[3]
        /\ output.temperature.neg <=> (data[2] >= 128)
        /\ (data = Frame(1, 144, 128, 10, 27)) =>
              output.temperature = [neg |-> TRUE, tenths |-> 10]
        /\ (data = Frame(2, 26, 1, 5, 34)) =>
              /\ output.humidity = [neg |-> FALSE, tenths |-> 538]
              /\ output.temperature = [neg |-> FALSE, tenths |-> 261]

\* 01 90 80 0A was read as -1.0
C8_Witness ==
    Returned /\ sensor.type = DHT22 /\ result = "true"
        /\ data = Frame(1, 144, 128, 10, 27)

\* C9: the bit appended by a bit-producing transition is 1 iff the measured
\* poll count is greater than 20 (20 polls give 0, 21 polls give 1).
C9_BitIffAbove20 ==
    [][ (j' = j + 1 /\ j < 40) =>
          data'[j \div 8] = 2 * data[j \div 8] + (IF counter' > 20 THEN 1 ELSE 0) ]_vars

\* byte 02: a pulse of 21 polls stored as 1, then one of 20 polls stored as 0
C9_Witness == pc = "capture" /\ j = 8 /\ counter = 20 /\ data[0] = 2

\* C10: a read starts from the same local state whatever happened before,
\* and what it returns is decided by the variant and by what it captured in
\* this call: nothing of an earlier read enters its result.
C10_NoHistory ==
    /\ pc = "wake" =>
          /\ i = 0 /\ j = 0 /\ counter = 0 /\ laststate = 1 /\ checksum = 0
          /\ \A k \in 0..4 : data[k] = 0
          /\ result = "none" /\ ~smashed
    /\ pc \in {"wake", "request", "prime", "release", "wait", "waited"} =>
          (j = 0 /\ \A k \in 0..4 : data[k] = 0)
    /\ (Returned /\ result = "true") =>
          /\ output.temperature = scale_temperature(sensor.type, data)
          /\ output.humidity = scale_humidity(sensor.type, data)

\* a read begins after an earlier read produced a reading
C10_Witness == pc = "wake" /\ output # InitOutput

\* "%.2f" of a value of at most two decimals: sign, integer digits, a point
\* and two digits
TwoDecimals(v) ==
    (IF v.neg THEN <<"-">> ELSE << >>)
        \o Decimal(v.hundredths \div 100) \o <<".">>
        \o <<DigitChars[((v.hundredths \div 10) % 10) + 1], DigitChars[(v.hundredths % 10) + 1]>>

\* C11: dht_float2String writes what "%.2f" writes: the value with a
\* two-digit fractional part, also for fractions below 0.10 and for negative
\* values.
C11_SameAsTwoDecimals == (buffer # << >>) => (buffer = TwoDecimals(value))

\* the pin operations a call has made when it is at each place
OpsAt ==
    [wake |-> 0, request |-> 1, prime |-> 2, release |-> 3, wait |-> 4,
     waited |-> 5, capture |-> 5, eval |-> 5, done |-> 5, crashed |-> 5]

Released == pc \in {"wait", "waited", "capture", "eval", "done", "crashed"}

\* C12: a call drives the line high 250 ms, low 20 ms, high 40 us and
\* releases it, once and in this order; the line is polled only after the
\* release and is not driven again, whatever the call returns.
C12_HandshakeOnce ==
    /\ pc \in DOMAIN OpsAt => ops = SubSeq(Handshake, 1, OpsAt[pc])
    /\ Released => gpio.dir = "in" /\ gpio.pin = sensor.pin
    /\ pc = "idle" => ops \in {<< >>, Handshake}

C12_Witness ==
    /\ Returned /\ result = "false" /\ diag.kind = "ChecksumMismatch"
    /\ ops = Handshake /\ i > 80

\* the level the next iteration measures is the one its index stands for:
\* high at even indices, low at odd ones
Aligned == laststate = (IF i % 2 = 0 THEN 1 ELSE 0)

\* a step of the capture loop that appends a bit
AppendsBit == pc = "capture" /\ j' = j + 1

\* C13 (as claimed): for any line behaviour the level whose duration is
\* turned into a data bit is high.
C13_BitsMeasureHigh == [][AppendsBit => laststate = 1]_vars

\* C13 (amended): the capture starts aligned, an iteration whose re-read
\* (line 106) gives the other level than the one measured keeps it aligned,
\* and an aligned iteration that appends a bit has measured a high pulse.
C13_AlignedBitsMeasureHigh ==
    [][ /\ (pc = "waited" /\ pc' = "capture") => Aligned'
        /\ (pc = "capture" /\ pc' = "capture" /\ Aligned /\ laststate' # laststate)
              => Aligned'
        /\ (AppendsBit /\ Aligned) => (laststate = 1 /\ i > 3 /\ i % 2 = 0) ]_vars

C13_Witness ==
    /\ pc = "capture" /\ i = 5 /\ j = 1 /\ counter = 21 /\ data[0] = 1
    /\ laststate = 0 /\ Aligned

\* the byte that bits 8n .. 8n+7 of bs spell, the first bit the highest
MsbFirst(bs, n) ==
    bs[8 * n + 1] * 128 + bs[8 * n + 2] * 64 + bs[8 * n + 3] * 32 + bs[8 * n + 4] * 16
        + bs[8 * n + 5] * 8 + bs[8 * n + 6] * 4 + bs[8 * n + 7] * 2 + bs[8 * n + 8]

\* C14: data[0..4] stay within 0..255; once 40 bits or more have been
\* appended, data[n] is the n-th group of eight of the first 40 bits read
\* MSB-first, so that the bits appended after them have not changed data[0..4].
C14_PackedMsbFirst ==
    /\ \A n \in 0..4 : data[n] \in 0..255
    /\ j >= FrameBits =>
          /\ Len(bits) = FrameBits
          /\ \A n \in 0..4 : data[n] = MsbFirst(bits, n)

C14_Witness ==
    /\ pc = "capture" /\ j = FrameBits + 2 /\ counter = 21
    /\ data[0] = 1 /\ data[1] = 144 /\ data[2] = 128 /\ data[3] = 10 /\ data[4] = 27

\* what the bit count and the checksum alone make of a frame
OutcomeOf(jv, d) ==
    IF jv < 39 THEN "InsufficientBits"
    ELSE IF d[4] = (d[0] + d[1] + d[2] + d[3]) % 256 THEN "Reading"
    ELSE "ChecksumMismatch"

\* C15: an iteration of the capture loop that counts 1000 polls ends the
\* loop without appending a bit and without reporting anything, the bits
\* before it are kept, and the read that follows is decided by the bit count
\* and the checksum alone; 40 good bits and a stall give success.
C15_StallEndsFrame ==
    [][ /\ (pc = "capture" /\ counter' = DHT_MAXPOLLS) =>
              /\ pc' = "eval"
              /\ j' = j /\ data' = data /\ bits' = bits /\ i' = i
              /\ result' = result /\ diag' = diag /\ output' = output
        /\ (pc = "eval" /\ counter = DHT_MAXPOLLS) =>
              /\ diag'.kind = OutcomeOf(j, data)
              /\ (result' = "true") <=> (OutcomeOf(j, data) = "Reading") ]_vars

C15_Witness ==
    /\ Returned /\ counter = DHT_MAXPOLLS /\ j = FrameBits /\ i = 84
    /\ result = "true" /\ diag.kind = "Reading"
    /\ data = Frame(1, 144, 128, 10, 27)

\* C16: for any line behaviour within the 10000-transition bound the byte
\* index j / 8 written by the bit-packing step stays inside data[0..99].
C16_IndexInBuffer == (j > 0) => ((j - 1) \div 8 \in 0..(DHT_DATALEN - 1))

\* C17 (as claimed): Timeout is reported only when no poll of the wait
\* loop, the one made with i = 32000 included, read the line low.
C17_TimeoutOnlyIfNeverLow == (Returned /\ diag.kind = "Timeout") => ~lowSeen

\* C17 (amended): the wait phase is decided by the counter alone. When it
\* ends with i < 32000 a poll read low and the call goes on to the capture;
\* when it ends with i = 32000 the call returns false with Timeout, whether
\* or not the poll made with i = 32000 read low.
C17_TimeoutIffCounterExhausted ==
    [][ (pc = "waited") =>
          IF i < DHT_MAXCOUNT
          THEN lowSeen /\ pc' = "capture" /\ result' = result /\ diag' = diag
          ELSE pc' = "done" /\ result' = "false" /\ diag'.kind = "Timeout" ]_vars

\* the last poll read low and the call still timed out
C17_Witness == Returned /\ diag.kind = "Timeout" /\ lowSeen /\ i = DHT_MAXCOUNT

=============================================================================
